---- MODULE Spec2Model ----
(***************************************************************************)
(* Gate controller firmware for the ATmega8535                             *)
(* (src/src/gate_controller_atmega8535.c).                                  *)
(*                                                                         *)
(* One main thread (main, toggle_gate, open_gate, close_gate, the reset    *)
(* supervisor) and one interrupt context (ISR(INT0_vect)).  pc is the      *)
(* position of main, isr_pc the position of the handler; main only runs    *)
(* while isr_pc = "none" and the handler is never re-entered.  Every       *)
(* access of main to a variable that the handler also writes is a step of  *)
(* its own, so the handler can run between any two of them.                *)
(*                                                                         *)
(* idle_timer_ms is a 32-bit volatile on an 8-bit core: idle_timer_ms++ is *)
(* a load followed by a store and the handler can run in between, so the   *)
(* store can overwrite the handler's reset of the counter.                 *)
(*                                                                         *)
(* Time passes in the _delay_ms calls only (instruction, UART and EEPROM    *)
(* times are not counted): wdt_ms is the time since the watchdog was last  *)
(* serviced, in real ms; on_ms the time the relays have been energized      *)
(* since they were last switched on, on the scale of MotionTime.           *)
(*                                                                         *)
(* Power loss or any hardware reset can happen in every state; storage     *)
(* writes are taken to complete (spec 4.1).                                *)
(***************************************************************************)
EXTENDS Integers, FiniteSets, Sequences, TLC

(* ---- program constants -------------------------------------------------- *)
GATE_CLOSED == 0
GATE_CLOSING == 1
GATE_OPENING == 2
GATE_OPEN == 3

RELAY_K1 == 0
RELAY_K2 == 1
RELAY_K3 == 2
RELAY_K4 == 3
LED_OPENING == 4
LED_CLOSING == 5

SHORT_DELAY == 10
RELAY_SWITCHING_DELAY == 100
BUTTON_DEBOUNCE_DELAY == 250
\* WDT_TIMEOUT is WDTO_1S: one second, in ms
WDT_TIMEOUT == 1000

(* ---- bounds: scaled stand-ins for the firmware's durations -------------- *)
\* GATE_OPERATION_TIME (30000 ms): length of the motion window in ms.
MotionTime == 20
\* the 1000 main-loop iterations between two periodic checks.
CheckPeriod == 2
\* REGULAR_RESET_HOURS * MS_PER_HOUR: the long-idle threshold in ms.
LongIdle == 4
\* RESET_DELAY (5000 ms): the grace delay in ms.
GraceDelay == 3
\* BUTTON_DEBOUNCE_DELAY (250 ms) on the scale of MotionTime: the part of a
\* motion window that one debounce delay of the handler takes.
DebounceTime == 5

Resting == {GATE_CLOSED, GATE_OPEN}
Transient == {GATE_CLOSING, GATE_OPENING}
StateCodes == Resting \cup Transient
Relays == {RELAY_K1, RELAY_K2, RELAY_K3, RELAY_K4}
OpenPair == {RELAY_K1, RELAY_K4}
ClosePair == {RELAY_K2, RELAY_K3}
Leds == {LED_OPENING, LED_CLOSING}

VARIABLES
    pc,             \* position of the main thread
    isr_pc,         \* position of ISR(INT0_vect), "none" when not running
    gate_state,     \* volatile uint8_t gate_state
    button_pressed, \* volatile uint8_t button_pressed (MotionFlag)
    gate_moving,    \* volatile uint8_t gate_moving (MovingFlag)
    idle_timer_ms,  \* volatile uint32_t idle_timer_ms (IdleTimer)
    reset_scheduled,\* volatile uint8_t reset_scheduled
    ms_counter,     \* uint16_t ms_counter, local of main
    i,              \* uint16_t i, loop variable of the motion window
    idle_tmp,       \* registers holding idle_timer_ms during idle_timer_ms++
    portb,          \* PORTB: the set of energized relay bits
    portd,          \* PORTD: the set of lit indicator bits
    ee_state,       \* EEPROM byte EEPROM_ADDR (0x00)
    ee_flag,        \* EEPROM byte EEPROM_RESET_FLAG (0x01)
    button_low,     \* TRUE while the button line PD2 is low (asserted)
    intf0,          \* INT0 request latched by a falling edge
    ien,            \* global interrupt enable (sei)
    wdt_ms,         \* ms since the last wdt_reset()
    on_ms           \* ms of relay-on time since the last energizing,
                    \* saturating above MotionTime

vars == <<pc, isr_pc, gate_state, button_pressed, gate_moving, idle_timer_ms,
          reset_scheduled, ms_counter, i, idle_tmp, portb, portd, ee_state,
          ee_flag, button_low, intf0, ien, wdt_ms, on_ms>>

ram == <<gate_state, button_pressed, gate_moving, idle_timer_ms,
         reset_scheduled>>
locals == <<ms_counter, i, idle_tmp>>
ports == <<portb, portd>>
eeprom == <<ee_state, ee_flag>>
line == <<button_low, intf0, ien>>
clock == <<wdt_ms, on_ms>>

(* ---- time --------------------------------------------------------------- *)
\* on_ms after a delay of d ms: relay-on time only grows while a relay is on
elapsed_on(pb, t, d) ==
    IF pb \cap Relays = {} THEN t
    ELSE IF t + d > MotionTime THEN MotionTime + 1
    ELSE t + d

\* the _delay_ms the main thread is in at its position: the dead time of
\* open_gate/close_gate, a pass of the window loop, the main loop's 1 ms
main_delay_pending ==
    IF pc \in {"open_dead_time", "close_dead_time"} THEN RELAY_SWITCHING_DELAY
    ELSE IF pc \in {"open_wait", "close_wait"} THEN SHORT_DELAY
    ELSE IF pc = "tick" THEN 1
    ELSE 0

\* the _delay_ms the handler is in at its position: the debounce delay, a
\* pass of the release loop
isr_delay_pending ==
    IF isr_pc = "debounce" THEN BUTTON_DEBOUNCE_DELAY
    ELSE IF isr_pc = "hold" /\ button_low THEN SHORT_DELAY
    ELSE 0

(* ---- persistent state store --------------------------------------------- *)
\* read_gate_state returning the stored byte as it is
read_gate_state_raw(stored) == stored

read_gate_state(stored) ==
    IF stored = GATE_CLOSING THEN GATE_CLOSED
    ELSE IF stored = GATE_OPENING THEN GATE_OPEN
    ELSE stored

\* write_gate_state without its write
write_gate_state_skip(stored, state) == stored

\* if (read_gate_state() != state): write_gate_state(state) executes its
\* eeprom_write_byte
write_gate_state_writes(stored, state) == read_gate_state(stored) # state

\* the content of EEPROM_ADDR after write_gate_state(state)
write_gate_state(stored, state) ==
    IF write_gate_state_writes(stored, state) THEN state ELSE stored

\* check_reset_flag without the clearing write
check_reset_flag_keep(flag) == flag

\* the content of EEPROM_RESET_FLAG after check_reset_flag()
check_reset_flag(flag) == IF flag # 0 THEN 0 ELSE flag

(* ---- actuator driver ---------------------------------------------------- *)
\* stop_gate with a mask that only names K1 and K2
stop_gate_portb_partial(pb) == pb \ {RELAY_K1, RELAY_K2}

\* PORTB after stop_gate()
stop_gate_portb(pb) == pb \ Relays

\* PORTD after indicate_stop()
indicate_stop(pd) == pd \ Leds

indicate_opening(pd) == (pd \cup {LED_OPENING}) \ {LED_CLOSING}

indicate_closing(pd) == (pd \cup {LED_CLOSING}) \ {LED_OPENING}

stop_gate ==
    /\ portb' = stop_gate_portb(portb)
    /\ portd' = indicate_stop(portd)
    /\ gate_moving' = 0

(* ---- gate motion state machine ------------------------------------------ *)
\* toggle_gate with its two branches exchanged
toggle_opens_swapped(gs) == gs = GATE_OPEN \/ gs = GATE_OPENING

\* the branch toggle_gate takes: TRUE for open_gate, FALSE for close_gate
toggle_opens(gs) == gs = GATE_CLOSED \/ gs = GATE_CLOSING

\* emergency_stop without the resolution of the transient state
emergency_resolve_keep(gs) == gs

\* gate_state after the if/else-if of emergency_stop
emergency_resolve(gs) ==
    IF gs = GATE_OPENING THEN GATE_OPEN
    ELSE IF gs = GATE_CLOSING THEN GATE_CLOSED
    ELSE gs

MainRuns == isr_pc = "none"

(* ---- reset -------------------------------------------------------------- *)
\* what every hardware reset does: RAM is re-initialised, the ports are
\* cleared, interrupts are disabled, main starts again; EEPROM is kept.
reset_vector ==
    /\ pc' = "boot_init"
    /\ isr_pc' = "none"
    /\ gate_state' = 0
    /\ button_pressed' = 0
    /\ gate_moving' = 0
    /\ idle_timer_ms' = 0
    /\ reset_scheduled' = 0
    /\ ms_counter' = 0
    /\ i' = 0
    /\ idle_tmp' = 0
    /\ portb' = {}
    /\ portd' = {}
    /\ intf0' = FALSE
    /\ ien' = FALSE
    /\ wdt_ms' = 0
    /\ on_ms' = 0
    /\ UNCHANGED <<ee_state, ee_flag, button_low>>

Init ==
    /\ pc = "boot_init"
    /\ isr_pc = "none"
    /\ gate_state = 0
    /\ button_pressed = 0
    /\ gate_moving = 0
    /\ idle_timer_ms = 0
    /\ reset_scheduled = 0
    /\ ms_counter = 0
    /\ i = 0
    /\ idle_tmp = 0
    /\ portb = {}
    /\ portd = {}
    /\ ee_state \in Resting
    /\ ee_flag \in {0, 1}
    /\ button_low = FALSE
    /\ intf0 = FALSE
    /\ ien = FALSE
    /\ wdt_ms = 0
    /\ on_ms = 0

(* ---- main: boot --------------------------------------------------------- *)
\* init_io, uart_init, init_interrupts (sei), reset-cause report
boot_init ==
    /\ MainRuns /\ pc = "boot_init"
    /\ ien' = TRUE
    /\ pc' = "boot_flag"
    /\ UNCHANGED <<isr_pc, ram, locals, ports, eeprom, button_low, intf0>>
    /\ UNCHANGED clock

\* if (check_reset_flag()): the marker is read and cleared, its old value
\* is the return value
boot_check_reset_flag ==
    /\ MainRuns /\ pc = "boot_flag"
    /\ ee_flag' = check_reset_flag(ee_flag)
    /\ pc' = IF ee_flag # 0 THEN "boot_report" ELSE "boot_read"
    /\ UNCHANGED <<isr_pc, ram, locals, ports, ee_state, line>>
    /\ UNCHANGED clock

\* uart_tx_string_P("System recovered from controlled reset")
boot_report_recovery ==
    /\ MainRuns /\ pc = "boot_report"
    /\ pc' = "boot_read"
    /\ UNCHANGED <<isr_pc, ram, locals, ports, eeprom, line>>
    /\ UNCHANGED clock

\* gate_state = read_gate_state(); init_watchdog(); ms_counter = 0
boot_read_state ==
    /\ MainRuns /\ pc = "boot_read"
    /\ gate_state' = read_gate_state(ee_state)
    /\ ms_counter' = 0
    /\ pc' = "loop_top"
    /\ UNCHANGED <<isr_pc, button_pressed, gate_moving, idle_timer_ms,
                   reset_scheduled, i, idle_tmp, ports, eeprom, line>>
    /\ wdt_ms' = 0
    /\ on_ms' = on_ms

(* ---- main: the loop ----------------------------------------------------- *)
\* reset_watchdog(); if (button_pressed)
main_poll_button ==
    /\ MainRuns /\ pc = "loop_top"
    /\ pc' = IF button_pressed # 0 THEN "clear_button" ELSE "tick"
    /\ UNCHANGED <<isr_pc, ram, locals, ports, eeprom, line>>
    /\ wdt_ms' = 0
    /\ on_ms' = on_ms

\* button_pressed = 0;
main_clear_button ==
    /\ MainRuns /\ pc = "clear_button"
    /\ button_pressed' = 0
    /\ pc' = "toggle"
    /\ UNCHANGED <<isr_pc, gate_state, gate_moving, idle_timer_ms,
                   reset_scheduled, locals, ports, eeprom, line>>
    /\ UNCHANGED clock

\* toggle_gate(): resets the idle supervision and picks the direction
toggle_gate ==
    /\ MainRuns /\ pc = "toggle"
    /\ idle_timer_ms' = 0
    /\ reset_scheduled' = 0
    /\ pc' = IF toggle_opens(gate_state) THEN "open_stop" ELSE "close_stop"
    /\ UNCHANGED <<isr_pc, gate_state, button_pressed, gate_moving, locals,
                   ports, eeprom, line>>
    /\ wdt_ms' = 0
    /\ on_ms' = on_ms

(* ---- open_gate ---------------------------------------------------------- *)
\* stop_gate(); reset_watchdog(); then the dead time begins
open_gate_stop ==
    /\ MainRuns /\ pc = "open_stop"
    /\ stop_gate
    /\ pc' = "open_dead_time"
    /\ UNCHANGED <<isr_pc, gate_state, button_pressed, idle_timer_ms,
                   reset_scheduled, locals, eeprom, line>>
    /\ wdt_ms' = 0
    /\ on_ms' = on_ms

\* _delay_ms(RELAY_SWITCHING_DELAY) is over: PORTB |= K1|K4; indicate_opening()
open_gate_energize ==
    /\ MainRuns /\ pc = "open_dead_time"
    /\ portb' = portb \cup OpenPair
    /\ portd' = indicate_opening(portd)
    /\ pc' = "open_state"
    /\ UNCHANGED <<isr_pc, ram, locals, eeprom, line>>
    /\ wdt_ms' = wdt_ms + RELAY_SWITCHING_DELAY
    /\ on_ms' = 0

\* gate_state = GATE_OPENING;
open_gate_set_state ==
    /\ MainRuns /\ pc = "open_state"
    /\ gate_state' = GATE_OPENING
    /\ pc' = "open_moving"
    /\ UNCHANGED <<isr_pc, button_pressed, gate_moving, idle_timer_ms,
                   reset_scheduled, locals, ports, eeprom, line>>
    /\ UNCHANGED clock

\* gate_moving = 1;
open_gate_set_moving ==
    /\ MainRuns /\ pc = "open_moving"
    /\ gate_moving' = 1
    /\ pc' = "open_timers"
    /\ UNCHANGED <<isr_pc, gate_state, button_pressed, idle_timer_ms,
                   reset_scheduled, locals, ports, eeprom, line>>
    /\ UNCHANGED clock

\* idle_timer_ms = 0; reset_scheduled = 0; for (i = 0; ...
open_gate_reset_timers ==
    /\ MainRuns /\ pc = "open_timers"
    /\ idle_timer_ms' = 0
    /\ reset_scheduled' = 0
    /\ i' = 0
    /\ pc' = "open_wait"
    /\ UNCHANGED <<isr_pc, gate_state, button_pressed, gate_moving,
                   ms_counter, idle_tmp, ports, eeprom, line>>
    /\ UNCHANGED clock

\* a pass of the window that does not advance the loop counter
open_gate_wait_uncounted ==
    /\ MainRuns /\ pc = "open_wait"
    /\ pc' = IF gate_moving = 0 THEN "tick" ELSE "open_wait"
    /\ UNCHANGED <<isr_pc, ram, locals, ports, eeprom, line>>
    /\ wdt_ms' = 0
    /\ on_ms' = elapsed_on(portb, on_ms, SHORT_DELAY)

\* one pass of the window: _delay_ms(SHORT_DELAY); reset_watchdog();
\* if (!gate_moving) return; i += SHORT_DELAY; i < GATE_OPERATION_TIME
open_gate_wait ==
    /\ MainRuns /\ pc = "open_wait"
    /\ IF gate_moving = 0
       THEN /\ pc' = "tick"
            /\ i' = i
       ELSE /\ i' = i + SHORT_DELAY
            /\ pc' = IF i + SHORT_DELAY < MotionTime THEN "open_wait"
                                                     ELSE "open_finish"
    /\ UNCHANGED <<isr_pc, ram, ms_counter, idle_tmp, ports, eeprom, line>>
    /\ wdt_ms' = 0
    /\ on_ms' = elapsed_on(portb, on_ms, SHORT_DELAY)

\* the window ran its full duration: stop_gate();
open_gate_finish ==
    /\ MainRuns /\ pc = "open_finish"
    /\ stop_gate
    /\ pc' = "open_rest"
    /\ UNCHANGED <<isr_pc, gate_state, button_pressed, idle_timer_ms,
                   reset_scheduled, locals, eeprom, line>>
    /\ UNCHANGED clock

\* gate_state = GATE_OPEN;
open_gate_set_rest ==
    /\ MainRuns /\ pc = "open_rest"
    /\ gate_state' = GATE_OPEN
    /\ pc' = "open_write"
    /\ UNCHANGED <<isr_pc, button_pressed, gate_moving, idle_timer_ms,
                   reset_scheduled, locals, ports, eeprom, line>>
    /\ UNCHANGED clock

\* write_gate_state(gate_state); and return to the main loop
open_gate_persist ==
    /\ MainRuns /\ pc = "open_write"
    /\ ee_state' = write_gate_state(ee_state, gate_state)
    /\ pc' = "tick"
    /\ UNCHANGED <<isr_pc, ram, locals, ports, ee_flag, line>>
    /\ UNCHANGED clock

(* ---- close_gate --------------------------------------------------------- *)
close_gate_stop ==
    /\ MainRuns /\ pc = "close_stop"
    /\ stop_gate
    /\ pc' = "close_dead_time"
    /\ UNCHANGED <<isr_pc, gate_state, button_pressed, idle_timer_ms,
                   reset_scheduled, locals, eeprom, line>>
    /\ wdt_ms' = 0
    /\ on_ms' = on_ms

\* _delay_ms(RELAY_SWITCHING_DELAY) is over: PORTB |= K2|K3; indicate_closing()
close_gate_energize ==
    /\ MainRuns /\ pc = "close_dead_time"
    /\ portb' = portb \cup ClosePair
    /\ portd' = indicate_closing(portd)
    /\ pc' = "close_state"
    /\ UNCHANGED <<isr_pc, ram, locals, eeprom, line>>
    /\ wdt_ms' = wdt_ms + RELAY_SWITCHING_DELAY
    /\ on_ms' = 0

\* gate_state = GATE_CLOSING;
close_gate_set_state ==
    /\ MainRuns /\ pc = "close_state"
    /\ gate_state' = GATE_CLOSING
    /\ pc' = "close_moving"
    /\ UNCHANGED <<isr_pc, button_pressed, gate_moving, idle_timer_ms,
                   reset_scheduled, locals, ports, eeprom, line>>
    /\ UNCHANGED clock

\* gate_moving = 1;
close_gate_set_moving ==
    /\ MainRuns /\ pc = "close_moving"
    /\ gate_moving' = 1
    /\ pc' = "close_timers"
    /\ UNCHANGED <<isr_pc, gate_state, button_pressed, idle_timer_ms,
                   reset_scheduled, locals, ports, eeprom, line>>
    /\ UNCHANGED clock

\* idle_timer_ms = 0; reset_scheduled = 0; for (i = 0; ...
close_gate_reset_timers ==
    /\ MainRuns /\ pc = "close_timers"
    /\ idle_timer_ms' = 0
    /\ reset_scheduled' = 0
    /\ i' = 0
    /\ pc' = "close_wait"
    /\ UNCHANGED <<isr_pc, gate_state, button_pressed, gate_moving,
                   ms_counter, idle_tmp, ports, eeprom, line>>
    /\ UNCHANGED clock

close_gate_wait ==
    /\ MainRuns /\ pc = "close_wait"
    /\ IF gate_moving = 0
       THEN /\ pc' = "tick"
            /\ i' = i
       ELSE /\ i' = i + SHORT_DELAY
            /\ pc' = IF i + SHORT_DELAY < MotionTime THEN "close_wait"
                                                     ELSE "close_finish"
    /\ UNCHANGED <<isr_pc, ram, ms_counter, idle_tmp, ports, eeprom, line>>
    /\ wdt_ms' = 0
    /\ on_ms' = elapsed_on(portb, on_ms, SHORT_DELAY)

close_gate_finish ==
    /\ MainRuns /\ pc = "close_finish"
    /\ stop_gate
    /\ pc' = "close_rest"
    /\ UNCHANGED <<isr_pc, gate_state, button_pressed, idle_timer_ms,
                   reset_scheduled, locals, eeprom, line>>
    /\ UNCHANGED clock

\* gate_state = GATE_CLOSED;
close_gate_set_rest ==
    /\ MainRuns /\ pc = "close_rest"
    /\ gate_state' = GATE_CLOSED
    /\ pc' = "close_write"
    /\ UNCHANGED <<isr_pc, button_pressed, gate_moving, idle_timer_ms,
                   reset_scheduled, locals, ports, eeprom, line>>
    /\ UNCHANGED clock

close_gate_persist ==
    /\ MainRuns /\ pc = "close_write"
    /\ ee_state' = write_gate_state(ee_state, gate_state)
    /\ pc' = "tick"
    /\ UNCHANGED <<isr_pc, ram, locals, ports, ee_flag, line>>
    /\ UNCHANGED clock

(* ---- main: idle accounting and the reset supervisor --------------------- *)
\* _delay_ms(1); ms_counter++; if (!gate_moving) <load idle_timer_ms>
main_tick ==
    /\ MainRuns /\ pc = "tick"
    /\ ms_counter' = ms_counter + 1
    /\ IF gate_moving = 0
       THEN /\ idle_tmp' = idle_timer_ms
            /\ pc' = "idle_store"
       ELSE /\ idle_tmp' = idle_tmp
            /\ pc' = "check"
    /\ UNCHANGED <<isr_pc, ram, i, ports, eeprom, line>>
    /\ wdt_ms' = wdt_ms + 1
    /\ on_ms' = elapsed_on(portb, on_ms, 1)

\* <store idle_timer_ms>: the second half of idle_timer_ms++
main_idle_store ==
    /\ MainRuns /\ pc = "idle_store"
    /\ idle_timer_ms' = idle_tmp + 1
    /\ pc' = "check"
    /\ UNCHANGED <<isr_pc, gate_state, button_pressed, gate_moving,
                   reset_scheduled, locals, ports, eeprom, line>>
    /\ UNCHANGED clock

\* if (ms_counter >= 1000) { ms_counter = 0;
main_check_period ==
    /\ MainRuns /\ pc = "check"
    /\ IF ms_counter >= CheckPeriod
       THEN /\ ms_counter' = 0
            /\ pc' = "long_idle"
       ELSE /\ ms_counter' = ms_counter
            /\ pc' = "loop_top"
    /\ UNCHANGED <<isr_pc, ram, i, idle_tmp, ports, eeprom, line>>
    /\ UNCHANGED clock

\* first operand of line 387: idle_timer_ms >= REGULAR_RESET_HOURS * MS_PER_HOUR
main_long_idle ==
    /\ MainRuns /\ pc = "long_idle"
    /\ pc' = IF idle_timer_ms >= LongIdle THEN "long_idle_flags"
                                          ELSE "grace"
    /\ UNCHANGED <<isr_pc, ram, locals, ports, eeprom, line>>
    /\ UNCHANGED clock

\* remaining operands of line 387: && !gate_moving && !reset_scheduled
main_long_idle_flags ==
    /\ MainRuns /\ pc = "long_idle_flags"
    /\ pc' = IF gate_moving = 0 /\ reset_scheduled = 0 THEN "schedule"
                                                       ELSE "grace"
    /\ UNCHANGED <<isr_pc, ram, locals, ports, eeprom, line>>
    /\ UNCHANGED clock

schedule_reset ==
    /\ MainRuns /\ pc = "schedule"
    /\ IF gate_moving = 0 /\ reset_scheduled = 0
       THEN /\ reset_scheduled' = 1
            /\ idle_timer_ms' = 0
       ELSE UNCHANGED <<reset_scheduled, idle_timer_ms>>
    /\ pc' = "grace"
    /\ UNCHANGED <<isr_pc, gate_state, button_pressed, gate_moving, locals,
                   ports, eeprom, line>>
    /\ UNCHANGED clock

\* if (reset_scheduled && idle_timer_ms >= RESET_DELAY)
main_grace ==
    /\ MainRuns /\ pc = "grace"
    /\ pc' = IF reset_scheduled # 0 /\ idle_timer_ms >= GraceDelay
             THEN "reset_entry" ELSE "loop_top"
    /\ UNCHANGED <<isr_pc, ram, locals, ports, eeprom, line>>
    /\ UNCHANGED clock

(* ---- perform_controlled_reset ------------------------------------------- *)
\* if (gate_moving) stop_gate();
perform_controlled_reset_stop ==
    /\ MainRuns /\ pc = "reset_entry"
    /\ IF gate_moving # 0 THEN stop_gate
                          ELSE UNCHANGED <<portb, portd, gate_moving>>
    /\ pc' = "reset_mark"
    /\ UNCHANGED <<isr_pc, gate_state, button_pressed, idle_timer_ms,
                   reset_scheduled, locals, eeprom, line>>
    /\ UNCHANGED clock

\* perform_controlled_reset arming the watchdog without writing the marker
perform_controlled_reset_mark_omitted ==
    /\ MainRuns /\ pc = "reset_mark"
    /\ pc' = "reset_spin"
    /\ UNCHANGED <<isr_pc, ram, locals, ports, eeprom, line>>
    /\ UNCHANGED clock

\* eeprom_write_byte(EEPROM_RESET_FLAG, 1); wdt_enable(WDTO_15MS);
perform_controlled_reset_mark ==
    /\ MainRuns /\ pc = "reset_mark"
    /\ ee_flag' = 1
    /\ pc' = "reset_spin"
    /\ UNCHANGED <<isr_pc, ram, locals, ports, ee_state, line>>
    /\ UNCHANGED clock

\* while(1); the 15 ms watchdog expires and restarts the controller.  A
\* handler entered during the spin is still in its 250 ms debounce delay.
watchdog_restart ==
    /\ pc = "reset_spin"
    /\ reset_vector

(* ---- ISR(INT0_vect) ----------------------------------------------------- *)
\* the latched falling edge is served: the handler starts its debounce delay
INT0_vect_enter ==
    /\ ien /\ intf0 /\ isr_pc = "none"
    /\ intf0' = FALSE
    /\ isr_pc' = "debounce"
    /\ UNCHANGED <<pc, ram, locals, ports, eeprom, button_low, ien>>
    /\ UNCHANGED clock

\* the handler without the re-sample of the line after the debounce delay
INT0_vect_sample_unchecked ==
    /\ isr_pc = "debounce" /\ pc # "reset_spin"
    /\ isr_pc' = "hold"
    /\ UNCHANGED <<pc, ram, locals, ports, eeprom, line>>
    /\ wdt_ms' = 0
    /\ on_ms' = elapsed_on(portb, on_ms, DebounceTime)

\* _delay_ms(BUTTON_DEBOUNCE_DELAY); reset_watchdog(); if (!(PIND & ...))
\* (not reached while main spins with the 15 ms watchdog armed)
INT0_vect_sample ==
    /\ isr_pc = "debounce" /\ pc # "reset_spin"
    /\ isr_pc' = IF button_low THEN "hold" ELSE "ret_ignored"
    /\ UNCHANGED <<pc, ram, locals, ports, eeprom, line>>
    /\ wdt_ms' = 0
    /\ on_ms' = elapsed_on(portb, on_ms, DebounceTime)

\* a pass of the release loop that delays without servicing the watchdog
INT0_vect_hold_unserviced ==
    /\ isr_pc = "hold" /\ button_low
    /\ wdt_ms' = wdt_ms + SHORT_DELAY
    /\ on_ms' = elapsed_on(portb, on_ms, SHORT_DELAY)
    /\ UNCHANGED <<pc, isr_pc, ram, locals, ports, eeprom, line>>

\* one pass of while (!(PIND & ...)) { _delay_ms(SHORT_DELAY);
\* reset_watchdog(); } with the button still held
INT0_vect_hold ==
    /\ isr_pc = "hold" /\ button_low
    /\ wdt_ms' = 0
    /\ on_ms' = elapsed_on(portb, on_ms, SHORT_DELAY)
    /\ UNCHANGED <<pc, isr_pc, ram, locals, ports, eeprom, line>>

\* while (!(PIND & ...)) { _delay_ms(SHORT_DELAY); reset_watchdog(); } ends
INT0_vect_released ==
    /\ isr_pc = "hold" /\ ~button_low
    /\ isr_pc' = "qualified"
    /\ UNCHANGED <<pc, ram, locals, ports, eeprom, line>>
    /\ UNCHANGED clock

emergency_stop ==
    /\ stop_gate
    /\ idle_timer_ms' = 0
    /\ reset_scheduled' = 0
    /\ gate_state' = emergency_resolve(gate_state)
    /\ ee_state' = write_gate_state(ee_state, emergency_resolve(gate_state))

\* the handler without the return after emergency_stop()
INT0_vect_press_no_return ==
    /\ isr_pc = "qualified"
    /\ IF gate_moving # 0
       THEN /\ emergency_stop
            /\ button_pressed' = 1
            /\ isr_pc' = "ret_stopped"
       ELSE /\ idle_timer_ms' = 0
            /\ reset_scheduled' = 0
            /\ button_pressed' = 1
            /\ isr_pc' = "ret_flagged"
            /\ UNCHANGED <<gate_state, gate_moving, portb, portd, ee_state>>
    /\ UNCHANGED <<pc, locals, ee_flag, line>>
    /\ wdt_ms' = IF gate_moving # 0 THEN 0 ELSE wdt_ms
    /\ on_ms' = on_ms

\* lines 311-319: the qualifying press is registered
INT0_vect_press ==
    /\ isr_pc = "qualified"
    /\ IF gate_moving # 0
       THEN /\ emergency_stop
            /\ button_pressed' = button_pressed
            /\ isr_pc' = "ret_stopped"
       ELSE /\ idle_timer_ms' = 0
            /\ reset_scheduled' = 0
            /\ button_pressed' = 1
            /\ isr_pc' = "ret_flagged"
            /\ UNCHANGED <<gate_state, gate_moving, portb, portd, ee_state>>
    /\ UNCHANGED <<pc, locals, ee_flag, line>>
    /\ wdt_ms' = IF gate_moving # 0 THEN 0 ELSE wdt_ms
    /\ on_ms' = on_ms

\* reti
INT0_vect_return ==
    /\ isr_pc \in {"ret_ignored", "ret_stopped", "ret_flagged"}
    /\ isr_pc' = "none"
    /\ UNCHANGED <<pc, ram, locals, ports, eeprom, line>>
    /\ UNCHANGED clock

(* ---- environment -------------------------------------------------------- *)
\* the button line falls; the edge is latched once interrupts are set up
button_press ==
    /\ ~button_low
    /\ button_low' = TRUE
    /\ intf0' = IF ien THEN TRUE ELSE intf0
    /\ UNCHANGED <<pc, isr_pc, ram, locals, ports, eeprom, ien>>
    /\ UNCHANGED clock

button_release ==
    /\ button_low
    /\ button_low' = FALSE
    /\ UNCHANGED <<pc, isr_pc, ram, locals, ports, eeprom, intf0, ien>>
    /\ UNCHANGED clock

\* power loss, brown-out or external reset, in any state
power_loss == reset_vector

Next ==
    \/ boot_init \/ boot_check_reset_flag \/ boot_report_recovery
    \/ boot_read_state
    \/ main_poll_button \/ main_clear_button \/ toggle_gate
    \/ open_gate_stop \/ open_gate_energize \/ open_gate_set_state
    \/ open_gate_set_moving \/ open_gate_reset_timers \/ open_gate_wait
    \/ open_gate_finish \/ open_gate_set_rest \/ open_gate_persist
    \/ close_gate_stop \/ close_gate_energize \/ close_gate_set_state
    \/ close_gate_set_moving \/ close_gate_reset_timers \/ close_gate_wait
    \/ close_gate_finish \/ close_gate_set_rest \/ close_gate_persist
    \/ main_tick \/ main_idle_store \/ main_check_period
    \/ main_long_idle \/ main_long_idle_flags \/ schedule_reset \/ main_grace
    \/ perform_controlled_reset_stop \/ perform_controlled_reset_mark
    \/ watchdog_restart
    \/ INT0_vect_enter \/ INT0_vect_sample \/ INT0_vect_hold
    \/ INT0_vect_released
    \/ INT0_vect_press \/ INT0_vect_return
    \/ button_press \/ button_release \/ power_loss

Spec == Init /\ [][Next]_vars

(* ---- progress ----------------------------------------------------------- *)
\* the steps of the main thread
MainThread ==
    \/ boot_init \/ boot_check_reset_flag \/ boot_report_recovery
    \/ boot_read_state
    \/ main_poll_button \/ main_clear_button \/ toggle_gate
    \/ open_gate_stop \/ open_gate_energize \/ open_gate_set_state
    \/ open_gate_set_moving \/ open_gate_reset_timers \/ open_gate_wait
    \/ open_gate_finish \/ open_gate_set_rest \/ open_gate_persist
    \/ close_gate_stop \/ close_gate_energize \/ close_gate_set_state
    \/ close_gate_set_moving \/ close_gate_reset_timers \/ close_gate_wait
    \/ close_gate_finish \/ close_gate_set_rest \/ close_gate_persist
    \/ main_tick \/ main_idle_store \/ main_check_period
    \/ main_long_idle \/ main_long_idle_flags \/ schedule_reset \/ main_grace
    \/ perform_controlled_reset_stop \/ perform_controlled_reset_mark

\* the steps of the handler other than a pass of its release loop
HandlerThread ==
    \/ INT0_vect_enter \/ INT0_vect_sample \/ INT0_vect_released
    \/ INT0_vect_press \/ INT0_vect_return

\* The core executes the handler to its end once it is entered, and at least
\* one instruction of main between two handlers, so main keeps advancing
\* however often it is interrupted (it is enabled again after every reti).
\* A pressed button is released, and the release loop, which samples the
\* line every SHORT_DELAY ms, sees the line high after one of the releases.
Fairness ==
    /\ SF_vars(MainThread)
    /\ WF_vars(HandlerThread)
    /\ SF_vars(INT0_vect_released)
    /\ WF_vars(button_release)

SpecFair == Init /\ [][Next]_vars /\ Fairness

(* ---- the controller started on any of the four stored state codes ------- *)
InitAnyCode ==
    /\ pc = "boot_init"
    /\ isr_pc = "none"
    /\ gate_state = 0
    /\ button_pressed = 0
    /\ gate_moving = 0
    /\ idle_timer_ms = 0
    /\ reset_scheduled = 0
    /\ ms_counter = 0
    /\ i = 0
    /\ idle_tmp = 0
    /\ portb = {}
    /\ portd = {}
    /\ ee_state \in StateCodes
    /\ ee_flag \in {0, 1}
    /\ button_low = FALSE
    /\ intf0 = FALSE
    /\ ien = FALSE
    /\ wdt_ms = 0
    /\ on_ms = 0

SpecAnyCode == InitAnyCode /\ [][Next]_vars

(* ---- the state store on its own: write_gate_state(s); read_gate_state() - *)
\* the values of a uint8_t
Bytes == 0..255

\* any stored byte, any state code as the argument (held in gate_state)
InitStore ==
    /\ pc = "store_call"
    /\ isr_pc = "none"
    /\ gate_state \in StateCodes
    /\ button_pressed = 0
    /\ gate_moving = 0
    /\ idle_timer_ms = 0
    /\ reset_scheduled = 0
    /\ ms_counter = 0
    /\ i = 0
    /\ idle_tmp = 0
    /\ portb = {}
    /\ portd = {}
    /\ ee_state \in Bytes
    /\ ee_flag = 0
    /\ button_low = FALSE
    /\ intf0 = FALSE
    /\ ien = FALSE
    /\ wdt_ms = 0
    /\ on_ms = 0

\* write_gate_state(gate_state);
store_write_gate_state ==
    /\ pc = "store_call"
    /\ ee_state' = write_gate_state(ee_state, gate_state)
    /\ pc' = "store_read"
    /\ UNCHANGED <<isr_pc, ram, locals, ports, ee_flag, line, clock>>

\* gate_state = read_gate_state();
store_read_gate_state ==
    /\ pc = "store_read"
    /\ gate_state' = read_gate_state(ee_state)
    /\ pc' = "store_done"
    /\ UNCHANGED <<isr_pc, button_pressed, gate_moving, idle_timer_ms,
                   reset_scheduled, locals, ports, eeprom, line, clock>>

NextStore == store_write_gate_state \/ store_read_gate_state

SpecStore == InitStore /\ [][NextStore]_vars

TypeOK ==
    /\ gate_state \in StateCodes
    /\ button_pressed \in {0, 1}
    /\ gate_moving \in {0, 1}
    /\ reset_scheduled \in {0, 1}
    /\ idle_timer_ms \in 0..(LongIdle + GraceDelay + CheckPeriod + 1)
    /\ ms_counter \in 0..CheckPeriod
    /\ portb \subseteq Relays
    /\ portd \subseteq Leds
    /\ ee_state \in StateCodes
    /\ ee_flag \in {0, 1}
    /\ wdt_ms \in 0..WDT_TIMEOUT
    /\ on_ms \in 0..(MotionTime + 1)

(* ======================================================================== *)
(* Properties                                                               *)
(* ======================================================================== *)
\* a step that is a hardware reset taken after sei (a reset taken before
\* sei changes nothing)
HwReset == ien /\ ~ien'

\* main is in its loop or in the reset supervisor: no motion routine
\* (toggle_gate, open_gate, close_gate) is in progress
AtRest ==
    pc \in {"loop_top", "clear_button", "tick", "idle_store", "check",
            "long_idle", "long_idle_flags", "schedule", "grace",
            "reset_entry", "reset_mark", "reset_spin"}

\* the step in which the handler registers a qualifying press (lines 311-319)
PressRegistered == isr_pc = "qualified" /\ isr_pc' \notin {"qualified", "none"}

\* the resting state a transient state is heading toward
HeadingTo(gs) == IF gs = GATE_OPENING THEN GATE_OPEN ELSE GATE_CLOSED

\* the successor of a state on the cycle Closed, Opening, Open, Closing
NextOnCycle(gs) ==
    IF gs = GATE_CLOSED THEN GATE_OPENING
    ELSE IF gs = GATE_OPENING THEN GATE_OPEN
    ELSE IF gs = GATE_OPEN THEN GATE_CLOSING
    ELSE GATE_CLOSED

(* C1: from a stored byte that is Closed or Open, the gate-state byte in    *)
(* storage is always Closed or Open, and every call of write_gate_state     *)
(* (end of the open window, end of the close window, emergency_stop)        *)
(* passes a resting state.                                                  *)
C1_StoredStateResting ==
    /\ ee_state \in Resting
    /\ pc \in {"open_write", "close_write"} => gate_state \in Resting
    /\ (isr_pc = "qualified" /\ gate_moving # 0)
          => emergency_resolve(gate_state) \in Resting

\* emergency_stop has just written the state of an interrupted opening
C1_Witness ==
    /\ isr_pc = "ret_stopped"
    /\ pc = "open_wait"
    /\ ee_state = GATE_OPEN

(* C2: when a reset hits while a motion window is in progress, the state    *)
(* the next boot loads from storage is the resting state the motion was     *)
(* heading toward.                                                          *)
C2_PowerLossResolvesForward ==
    [][(HwReset /\ gate_moving # 0 /\ gate_state \in Transient)
          => read_gate_state(ee_state') = HeadingTo(gate_state)]_vars

(* C3: gate_state only moves along Closed, Opening, Open, Closing, Closed:  *)
(* toggle_gate starts the open motion from Closed and the close motion from *)
(* Open, and a window that ran its full duration ends in the opposite       *)
(* resting state, which is the state then stored.                           *)
C3_StrictAlternation ==
    [][/\ (~HwReset /\ pc \notin {"boot_init", "boot_flag", "boot_report",
                           "boot_read"})
             => gate_state' \in {gate_state, NextOnCycle(gate_state)}
       /\ (pc = "toggle" /\ pc' # pc /\ ~HwReset)
             => /\ gate_state \in Resting
                /\ gate_state = GATE_CLOSED => pc' = "open_stop"
                /\ gate_state = GATE_OPEN => pc' = "close_stop"
       /\ (pc = "open_write" /\ pc' # pc /\ ~HwReset)
             => gate_state' = GATE_OPEN /\ ee_state' = GATE_OPEN
       /\ (pc = "close_write" /\ pc' # pc /\ ~HwReset)
             => gate_state' = GATE_CLOSED /\ ee_state' = GATE_CLOSED
      ]_vars

\* a close window that followed an open window has run its full duration
C3_Witness ==
    /\ pc = "close_write"
    /\ gate_state = GATE_CLOSED
    /\ ee_state = GATE_OPEN
    /\ button_pressed = 0

(* C4: no relay of the opening pair (K1, K4) is energized together with a   *)
(* relay of the closing pair (K2, K3), and during the dead time that        *)
(* precedes every energizing all four relays are off.                       *)
C4_NoShootThrough ==
    /\ portb \cap OpenPair = {} \/ portb \cap ClosePair = {}
    /\ pc \in {"open_dead_time", "close_dead_time"} => portb \cap Relays = {}

\* the closing pair is energized while the handler waits for the release
C4_Witness ==
    /\ portb = ClosePair
    /\ isr_pc = "hold"
    /\ ee_state = GATE_OPEN

(* C5: the handler step that registers a qualifying press: with             *)
(* gate_moving set it leaves all relays and indicators off, gate_moving     *)
(* clear, gate_state at the resting state of the interrupted direction,     *)
(* idle_timer_ms and reset_scheduled reset and button_pressed untouched;    *)
(* with gate_moving clear it only sets button_pressed and resets            *)
(* idle_timer_ms and reset_scheduled.                                       *)
C5_HandlerEffect ==
    [][PressRegistered =>
          IF gate_moving # 0
          THEN /\ portb' \cap Relays = {}
               /\ portd' \cap Leds = {}
               /\ gate_moving' = 0
               /\ gate_state \in Transient
               /\ gate_state' = HeadingTo(gate_state)
               /\ idle_timer_ms' = 0
               /\ reset_scheduled' = 0
               /\ button_pressed' = button_pressed
          ELSE /\ button_pressed' = 1
               /\ idle_timer_ms' = 0
               /\ reset_scheduled' = 0
               /\ UNCHANGED <<gate_state, gate_moving, portb, portd,
                              ee_state, ee_flag, pc, locals>>
      ]_vars

\* the handler is about to return from a stop that left no pending toggle
C5_Witness ==
    /\ isr_pc = "ret_stopped"
    /\ button_pressed = 0
    /\ portb = {}
    /\ gate_state = GATE_OPEN

(* C6: emergency_stop with gate_moving set leaves gate_moving clear and     *)
(* both gate_state and the state read back from storage at the resting      *)
(* state of the direction in progress.                                      *)
C6_EmergencyStopCommits ==
    [][(PressRegistered /\ gate_moving # 0)
          => /\ gate_moving' = 0
             /\ gate_state' = HeadingTo(gate_state)
             /\ gate_state' \in Resting
             /\ read_gate_state(ee_state') = HeadingTo(gate_state)
             /\ ee_state' \in Resting
      ]_vars

\* emergency_stop has committed an interrupted closing to storage
C6_Witness ==
    /\ isr_pc = "ret_stopped"
    /\ gate_moving = 0
    /\ gate_state = GATE_CLOSED
    /\ ee_state = GATE_CLOSED
    /\ pc = "close_wait"

(* C7: every qualifying press registered while main is in its loop and no   *)
(* motion routine is in progress becomes a pending toggle of its own (button_pressed goes from 0 *)
(* to 1), and a pending toggle only disappears by main consuming it: no     *)
(* press is lost.  (A power loss is not the program's doing and is left     *)
(* out; the watchdog restart of perform_controlled_reset is.)               *)
C7_EveryPressTogglesOnce ==
    [][/\ (PressRegistered /\ AtRest)
             => button_pressed = 0 /\ button_pressed' = 1
       /\ (button_pressed = 1 /\ button_pressed' = 0)
             => \/ pc = "clear_button" /\ pc' = "toggle"
                \/ HwReset /\ pc # "reset_spin"
      ]_vars

(* C8: a trigger whose line is high again when re-sampled after the         *)
(* debounce delay ends the handler without any change to gate_state,        *)
(* button_pressed, gate_moving, idle_timer_ms, reset_scheduled, the relay   *)
(* and indicator outputs and storage.                                       *)
C8_ShortPressNoEffect ==
    [][/\ (isr_pc = "debounce" /\ ~button_low /\ isr_pc' # isr_pc /\ ~HwReset)
             => isr_pc' = "ret_ignored" /\ UNCHANGED <<ram, ports, eeprom>>
       /\ (isr_pc = "ret_ignored" /\ ~HwReset)
             => /\ isr_pc' \in {"ret_ignored", "none"}
                /\ UNCHANGED <<ram, ports, eeprom>>
      ]_vars

\* a trigger during a motion window was ignored: the gate keeps moving
C8_Witness ==
    /\ isr_pc = "ret_ignored"
    /\ gate_moving = 1
    /\ portb = OpenPair

(* C9: at a periodic check, reset_scheduled is set and idle_timer_ms        *)
(* restarts from zero when idle_timer_ms has reached the long-idle          *)
(* threshold; a check that begins with a registered, not yet consumed press *)
(* (which reset idle_timer_ms) finds idle_timer_ms below the threshold and  *)
(* leaves reset_scheduled clear.                                            *)
C9_LongIdleSchedules ==
    [][/\ (pc = "long_idle" /\ pc' # pc /\ ~HwReset /\ button_pressed = 1)
             => pc' = "grace" /\ reset_scheduled' = reset_scheduled
       /\ (pc = "long_idle" /\ pc' # pc /\ ~HwReset)
             => (pc' = "long_idle_flags" <=> idle_timer_ms >= LongIdle)
       /\ (pc = "schedule" /\ pc' # pc /\ ~HwReset)
             => reset_scheduled' = 1 /\ idle_timer_ms' = 0
      ]_vars

(* C10: a periodic check that finds reset_scheduled set and idle_timer_ms   *)
(* at the grace delay enters perform_controlled_reset, which writes the     *)
(* reset marker before it arms the short watchdog and spins: the marker is  *)
(* 1 in storage for as long as main spins, the restart included.            *)
C10_MarkerBeforeRestart ==
    [][/\ (pc = "grace" /\ pc' # pc /\ ~HwReset
           /\ reset_scheduled # 0 /\ idle_timer_ms >= GraceDelay)
             => pc' = "reset_entry"
       /\ (pc = "reset_entry" /\ pc' # pc /\ ~HwReset) => pc' = "reset_mark"
       /\ (pc = "reset_mark" /\ pc' # pc /\ ~HwReset)
             => pc' = "reset_spin" /\ ee_flag' = 1
       /\ pc = "reset_spin" => ee_flag = 1 /\ ee_flag' = 1
      ]_vars

\* main spins with the marker written, after a scheduled reset's grace delay
C10_Witness ==
    /\ pc = "reset_spin"
    /\ ee_flag = 1
    /\ reset_scheduled = 1
    /\ idle_timer_ms >= GraceDelay

(* C11: the boot check reports recovery exactly when the marker byte is     *)
(* non-zero and leaves the marker zero; the marker only becomes non-zero in *)
(* perform_controlled_reset and only becomes zero in a boot check that      *)
(* reports it, so each controlled reset is reported by one boot and by no   *)
(* later one.                                                               *)
C11_MarkerExactlyOnce ==
    [][/\ (pc = "boot_flag" /\ pc' # pc /\ ~HwReset)
             => /\ ee_flag' = 0
                /\ pc' = "boot_report" <=> ee_flag # 0
       /\ (pc' = "boot_report" /\ pc # "boot_report") => pc = "boot_flag"
       /\ (ee_flag = 0 /\ ee_flag' # 0)
             => pc = "reset_mark" /\ pc' = "reset_spin"
       /\ (ee_flag # 0 /\ ee_flag' = 0)
             => pc = "boot_flag" /\ pc' = "boot_report"
      ]_vars

\* a boot is reporting the recovery and has cleared the marker
C11_Witness ==
    /\ pc = "boot_report"
    /\ ee_flag = 0
    /\ isr_pc = "none"

(* C12: while perform_controlled_reset executes, gate_moving is clear and   *)
(* all four relays are off: a scheduled reset never cuts a motion window.   *)
C12_ResetOnlyAtRest ==
    pc \in {"reset_entry", "reset_mark", "reset_spin"}
       => /\ gate_moving = 0
          /\ portb \cap Relays = {}
          /\ gate_state \in Resting

\* perform_controlled_reset is entered after the gate was opened
C12_Witness ==
    /\ pc = "reset_entry"
    /\ gate_moving = 0
    /\ portb = {}
    /\ ee_state = GATE_OPEN
    /\ gate_state = GATE_OPEN

\* ---- C13 ---------------------------------------------------------------
\* C13: from the energizing of a direction pair the relays are off again no
\* later than the motion duration afterwards, whatever the button does: while
\* a relay is energized the relays have been on for at most MotionTime.
C13_WindowIsCeiling ==
    portb \cap Relays # {} => on_ms <= MotionTime

\* ---- C14 ---------------------------------------------------------------
\* C14: outside perform_controlled_reset the time since the last watchdog
\* service, counted to the end of the delays the main thread and the handler
\* are in, stays below the watchdog timeout.
C14_WatchdogServicedInTime ==
    pc \notin {"reset_entry", "reset_mark", "reset_spin"}
       => wdt_ms + main_delay_pending + isr_delay_pending < WDT_TIMEOUT

\* the handler's debounce delay starts at the end of the dead-time delay
C14_Witness ==
    /\ pc = "open_state" /\ isr_pc = "debounce"
    /\ wdt_ms = RELAY_SWITCHING_DELAY

\* ---- C15 ---------------------------------------------------------------
\* C15: whatever byte was stored before, reading back after
\* write_gate_state(s) returns s when s is Closed or Open and the resting
\* state s was heading toward when s is Closing or Opening.
C15_StoreRoundTrip ==
    [][(pc = "store_read" /\ pc' = "store_done")
          => gate_state' = IF gate_state \in Resting THEN gate_state
                           ELSE HeadingTo(gate_state)
      ]_vars

\* Opening was written over a different byte and read back as Open
C15_Witness ==
    /\ pc = "store_done" /\ ee_state = GATE_OPENING /\ gate_state = GATE_OPEN

\* ---- C16 ---------------------------------------------------------------
\* C16: write_gate_state(s) executes its write only if the stored byte
\* differs from s, and not when the stored byte equals s.
C16_WriteOnlyOnDifference ==
    [][(/\ pc = "store_call" /\ pc' = "store_read"
        /\ write_gate_state_writes(ee_state, gate_state))
          => ee_state # gate_state
      ]_vars

\* ---- C19 ---------------------------------------------------------------
\* C19: started on any of the four stored codes, the main loop calls
\* toggle_gate only with GateState Closed or Open.
C19_ToggleOnlyAtRest ==
    pc = "toggle" => gate_state \in Resting

\* a toggle after a boot that found Opening stored
C19_Witness ==
    /\ pc = "toggle" /\ ee_state = GATE_OPENING /\ gate_state = GATE_OPEN

\* ---- C17 ---------------------------------------------------------------
\* C17: in every reachable state, if a relay is energized then MovingFlag is
\* set, so a qualifying press made while the motor is driven is an emergency
\* stop and never a toggle request.
C17_EnergizedImpliesMoving ==
    portb \cap Relays # {} => gate_moving = 1

\* ---- C18 ---------------------------------------------------------------
\* C18: when open_gate or close_gate returns to the main loop, after a full
\* window or after an emergency stop, no toggle request is pending.
C18_NoPendingToggleOnReturn ==
    [][(/\ pc \in {"open_wait", "open_write", "close_wait", "close_write"}
        /\ pc' = "tick")
          => button_pressed' = 0
      ]_vars

\* ---- C20 ---------------------------------------------------------------
\* C20: whenever the main loop runs with no motion routine in progress, the
\* in-memory GateState equals what read_gate_state() returns from storage.
C20_MemoryMatchesStore ==
    AtRest => gate_state = read_gate_state(ee_state)

\* back at the top of the loop after a window that ran its full duration
C20_Witness ==
    /\ pc = "loop_top" /\ isr_pc = "none" /\ i >= MotionTime
    /\ gate_state = GATE_OPEN /\ ee_state = GATE_OPEN

\* ---- C21 ---------------------------------------------------------------
\* a direction pair is energized: open_gate or close_gate has started a motion
MotionStarted == portb \cap Relays # {}

\* all relays off, MovingFlag false, GateState Closed or Open
MotionEnded ==
    /\ portb \cap Relays = {}
    /\ gate_moving = 0
    /\ gate_state \in Resting

\* C21: with the main loop progressing and every press released, every
\* motion started by open_gate or close_gate leads to a state with all relays
\* off, MovingFlag false and GateState resting, after a full window or after
\* an emergency stop.
C21_MotionEnds == MotionStarted ~> MotionEnded

\* a window that ran its full duration has just been ended by stop_gate and
\* the resting state is set, not yet stored
C21_Witness ==
    /\ pc = "close_write" /\ i >= MotionTime /\ MotionEnded
    /\ gate_state = GATE_CLOSED /\ ee_state = GATE_OPEN /\ isr_pc = "none"

====
